---- MODULE Spec2Model ----
(***************************************************************************)
(* Model of Stream_lit/streamlit_app.py: the "Process Document" handler    *)
(* (lines 43-94) and the chat-input handler (lines 110-147) of the         *)
(* Smart Study Buddy page, over the two collections doc_collection and     *)
(* chat_collection imported from the backend module (lines 8-14).          *)
(*                                                                         *)
(* Spec      one browser session; every script run is one action.          *)
(* SpecConc  two sessions sharing the module-level collections; the        *)
(*           "Process Document" handler is split at its backend calls.     *)
(*           Only ingestions run there, so no question is asked.           *)
(***************************************************************************)
EXTENDS Integers, Sequences, FiniteSets, TLC

VARIABLES
    history,          \* st.session_state.history
    file_processed,   \* st.session_state.file_processed
    file_name,        \* st.session_state.file_name
    doc_collection,   \* entries of the document-chunk collection
    chat_collection,  \* entries of the long-term-memory collection
    ui,               \* what the last script run rendered
    calls,            \* backend calls made by the last script run, in order
    asked,            \* number of questions accepted so far (source of memory ids)
    sess,             \* SpecConc: per-session state and handler position
    overlapped        \* SpecConc: an ingestion began while another was in flight

vars == <<history, file_processed, file_name, doc_collection, chat_collection,
          ui, calls, asked, sess, overlapped>>

single == <<history, file_processed, file_name, ui, calls>>

(***************************** bounds ***************************************)
MaxChunks == 2
MaxAsk == 2

(***************************** inputs ***************************************)
Docs == {"A.pdf", "B.txt"}
Prompts == {"q"}

\* os.path.splitext(uploaded_file.name)[1], the suffix of the temporary file
Suffix(name) == IF name = "A.pdf" THEN ".pdf" ELSE ".txt"

\* the possible return values of extract_text(filepath): n chunks in document
\* order, a PDF's tagged with their page, a text file's with one synthetic page
ChunkLists(name) ==
    {[i \in 1..n |-> [content |-> <<name, "part", i>>,
                      page_number |-> IF Suffix(name) = ".pdf" THEN i ELSE 1]] :
        n \in 0..MaxChunks}

\* places where the ingestion's try block can raise
FailPoints == {"none", "doc_delete", "chat_delete", "extract", "add"}

(***************************** strings **************************************)
\* texts are sequences of words; str.startswith compares a leading slice
StartsWith(s, prefix) ==
    /\ Len(s) >= Len(prefix)
    /\ SubSeq(s, 1, Len(prefix)) = prefix

IsError(answer) == StartsWith(answer, <<"Error">>)

OkAnswers == {<<"The", "answer">>}
ErrAnswers == {<<"Error", "calling", "model">>}

\* f"Error generating response: {e}"
ErrorGenerating(e) == <<"Error", "generating", "response:", e>>

(***************************** collections **********************************)
NoMeta == [k \in {} |-> 0]

\* metadata a long-term-memory entry is stored with: no page, a sentinel, a page
MemMetas == {NoMeta, [page |-> -1], [page |-> 0]}

\* where={"page": {"$gte": 0}}
MatchesWhere(e) == "page" \in DOMAIN e.metadata /\ e.metadata.page >= 0

\* variant: the delete matches nothing
DeleteWhere_keep(coll) == coll

\* collection.delete(where={"page": {"$gte": 0}})
DeleteWhere(coll) == {e \in coll : ~MatchesWhere(e)}

Ids(coll) == {e.id : e \in coll}

\* variant: the index is left out of the id
ChunkId_noIndex(name, i) == <<name, "_chunk_", 0>>

\* f"{uploaded_file.name}_chunk_{i}"
ChunkId(name, i) == <<name, "_chunk_", i>>

\* ids_to_add
IdsToAdd(name, chunks) == {ChunkId(name, i) : i \in 0..(Len(chunks) - 1)}

\* documents_to_add, metadatas_to_add and ids_to_add, zipped; only the first
\* upto entries (all of them when upto = Len(chunks))
EntriesToAdd(name, chunks, upto) ==
    {[id |-> ChunkId(name, i),
      document |-> chunks[i + 1].content,
      metadata |-> [page |-> chunks[i + 1].page_number]] : i \in 0..(upto - 1)}

\* collection.add: an id already present keeps its entry
AddEntries(coll, entries) == coll \cup {e \in entries : e.id \notin Ids(coll)}

(************************* Process Document ********************************)
\* how far the try block of lines 53-85 gets
DocDeleted(failAt) == failAt # "doc_delete"

Cleared(failAt) == failAt \notin {"doc_delete", "chat_delete"}

Extracted(failAt) == Cleared(failAt) /\ failAt # "extract"

\* variant: the emptiness test of line 66 is missing
AddCalled_noEmptyCheck(failAt, chunks) == Extracted(failAt)

\* line 66: "if not chunks" skips the add
AddCalled(failAt, chunks) == Extracted(failAt) /\ chunks # <<>>

\* variant: the session is marked before the add is made
Succeeded_beforeAdd(failAt, chunks) == AddCalled(failAt, chunks)

\* lines 82-84 run only after doc_collection.add returned
Succeeded(failAt, chunks) == AddCalled(failAt, chunks) /\ failAt # "add"

\* line 67, line 84 or line 88
IngestMsg(failAt, chunks) ==
    IF Succeeded(failAt, chunks) THEN "success"
    ELSE IF Extracted(failAt) /\ ~AddCalled(failAt, chunks) THEN "no_text"
    ELSE "error"

\* one backend call of a script run: whether it raised and what it returned
Returned(fn, raised, answer, sources, chunks) ==
    [fn |-> fn, raised |-> raised, answer |-> answer, sources |-> sources,
     chunks |-> chunks]

Call(fn, raised) == Returned(fn, raised, <<>>, <<>>, <<>>)

IngestCalls(failAt, chunks) ==
    <<Call("doc_collection.delete", failAt = "doc_delete")>>
    \o (IF DocDeleted(failAt)
        THEN <<Call("chat_collection.delete", failAt = "chat_delete")>> ELSE <<>>)
    \o (IF Cleared(failAt)
        THEN <<Returned("extract_text", failAt = "extract", <<>>, <<>>,
                        IF Extracted(failAt) THEN chunks ELSE <<>>)>>
        ELSE <<>>)
    \o (IF AddCalled(failAt, chunks)
        THEN <<Call("doc_collection.add", failAt = "add")>> ELSE <<>>)

\* doc_collection after the handler; partial is the number of entries a raising
\* add had already written
IngestDoc(coll, name, chunks, failAt, partial) ==
    LET cleared == IF DocDeleted(failAt) THEN DeleteWhere(coll) ELSE coll
    IN  IF ~AddCalled(failAt, chunks) THEN cleared
        ELSE IF failAt = "add"
             THEN AddEntries(cleared, EntriesToAdd(name, chunks, partial))
             ELSE AddEntries(cleared, EntriesToAdd(name, chunks, Len(chunks)))

IngestChat(coll, failAt) == IF Cleared(failAt) THEN DeleteWhere(coll) ELSE coll

Rendered(op, msg, name, answer, sources, collide) ==
    [op |-> op, msg |-> msg, name |-> name, answer |-> answer,
     sources |-> sources, collide |-> collide]

ProcessDocument ==
    \E name \in Docs, failAt \in FailPoints :
    \E chunks \in IF Extracted(failAt) THEN ChunkLists(name) ELSE {<<>>} :
    \E partial \in IF failAt = "add" /\ chunks # <<>> THEN 0..(Len(chunks) - 1) ELSE {0} :
        /\ doc_collection' = IngestDoc(doc_collection, name, chunks, failAt, partial)
        /\ chat_collection' = IngestChat(chat_collection, failAt)
        /\ history' = IF Cleared(failAt) THEN <<>> ELSE history
        /\ file_processed' = IF Succeeded(failAt, chunks) THEN TRUE ELSE file_processed
        /\ file_name' = IF Succeeded(failAt, chunks) THEN name ELSE file_name
        /\ ui' = Rendered("ingest", IngestMsg(failAt, chunks), name, <<>>, <<>>,
                          /\ AddCalled(failAt, chunks)
                          /\ IdsToAdd(name, chunks)
                               \cap Ids(IF DocDeleted(failAt)
                                        THEN DeleteWhere(doc_collection)
                                        ELSE doc_collection) # {})
        /\ calls' = IngestCalls(failAt, chunks)
        /\ UNCHANGED <<asked, sess, overlapped>>

(***************************** ask ******************************************)
\* what get_conversational_answer(prompt, history_for_llm) can do: raise, return
\* an error answer with no sources, or return an answer citing pages of chunks
\* of the document collection
GcaOutcomes(prompt, history_for_llm, docs) ==
    {[raised |-> TRUE, answer |-> <<>>, sources |-> <<>>]}
    \cup {[raised |-> FALSE, answer |-> a, sources |-> <<>>] : a \in ErrAnswers \cup OkAnswers}
    \cup {[raised |-> FALSE, answer |-> a, sources |-> <<[page |-> e.metadata.page]>>] :
            a \in OkAnswers, e \in docs}

\* the entry _store_in_long_term_memory(prompt, answer) writes
MemoryEntry(id, prompt, answer, meta, doc) ==
    [id |-> <<"memory", id>>, document |-> <<prompt, answer>>, metadata |-> meta,
     doc |-> doc]

\* variant: the gate of line 112 is missing
AskAccepted_always(processed) == TRUE

\* line 112: a question is taken only once a document has been processed
AskAccepted(processed) == processed

\* variant: the test of line 131 is missing
ShouldStore_always(answer) == TRUE

\* line 131: if not answer.startswith("Error")
ShouldStore(answer) == ~IsError(answer)

\* variant: the history is assigned instead of appended to
AppendTurn_rewrite(h, role, parts) == <<[role |-> role, parts |-> parts]>>

\* st.session_state.history.append({"role": role, "parts": parts})
AppendTurn(h, role, parts) == Append(h, [role |-> role, parts |-> parts])

\* lines 115-147 for an accepted question
AskRun(h, chat, doc, prompt, gca, storeRaises, meta, id) ==
    LET h1 == AppendTurn(h, "user", prompt)
        stored == ~gca.raised /\ ShouldStore(gca.answer)
        failed == gca.raised \/ (stored /\ storeRaises)
        answer == IF failed
                  THEN ErrorGenerating(IF gca.raised THEN "synthesis" ELSE "memory")
                  ELSE gca.answer
        sources == IF failed THEN <<>> ELSE gca.sources
    IN  [history |-> AppendTurn(h1, "model", answer),
         chat |-> IF stored /\ ~storeRaises
                  THEN chat \cup {MemoryEntry(id, prompt, gca.answer, meta, doc)}
                  ELSE chat,
         answer |-> answer,
         sources |-> sources,
         calls |-> <<Returned("get_conversational_answer", gca.raised, gca.answer,
                              gca.sources, <<>>)>>
                   \o (IF stored
                       THEN <<Call("_store_in_long_term_memory", storeRaises)>>
                       ELSE <<>>)]

Ask ==
    \E prompt \in Prompts, storeRaises \in BOOLEAN, meta \in MemMetas :
    \E gca \in GcaOutcomes(prompt, history, doc_collection) :
        IF ~AskAccepted(file_processed)
        THEN /\ ui' = Rendered("ask", "warning", "", <<>>, <<>>, FALSE)
             /\ calls' = <<>>
             /\ UNCHANGED <<history, file_processed, file_name, doc_collection,
                            chat_collection, asked, sess, overlapped>>
        ELSE /\ asked < MaxAsk
             /\ LET r == AskRun(history, chat_collection, file_name, prompt, gca,
                                storeRaises, meta, asked)
                IN  /\ history' = r.history
                    /\ chat_collection' = r.chat
                    /\ ui' = Rendered("ask", "answer", "", r.answer, r.sources, FALSE)
                    /\ calls' = r.calls
             /\ asked' = asked + 1
             /\ UNCHANGED <<file_processed, file_name, doc_collection, sess, overlapped>>

(***************************** state ****************************************)
Sessions == {"s1", "s2"}

IdleSession ==
    [pc |-> "idle", name |-> "", chunks |-> <<>>, history |-> <<>>,
     file_processed |-> FALSE, file_name |-> "", msg |-> "none"]

Init ==
    /\ history = <<>>
    /\ file_processed = FALSE
    /\ file_name = ""
    /\ doc_collection = {}
    /\ chat_collection = {}
    /\ ui = Rendered("none", "none", "", <<>>, <<>>, FALSE)
    /\ calls = <<>>
    /\ asked = 0
    /\ sess = [s \in Sessions |-> IdleSession]
    /\ overlapped = FALSE

Next == ProcessDocument \/ Ask

Spec == Init /\ [][Next]_vars

(************************* two sessions *************************************)
\* Each session runs its script in its own thread; the collections are the
\* module-level objects every session imports.  The handler of lines 53-89 is
\* cut at its backend calls: pc is the call the session makes next.
Busy(s) == sess[s].pc # "idle"

\* the script run ends: its locals are gone, the message stays on the page
Finish(s, msg) ==
    [sess EXCEPT ![s].pc = "idle", ![s].msg = msg, ![s].name = "", ![s].chunks = <<>>]

\* the "Process Document" button is pressed in session s
CBegin(s) ==
    \E name \in Docs :
        /\ ~Busy(s)
        /\ sess' = [sess EXCEPT ![s].pc = "doc_delete", ![s].name = name,
                                ![s].chunks = <<>>, ![s].msg = "none"]
        /\ overlapped' = (overlapped \/ \E t \in Sessions \ {s} : Busy(t))
        /\ UNCHANGED <<doc_collection, chat_collection, asked, single>>

\* line 56
CDocDelete(s) ==
    \E failAt \in {"none", "doc_delete"} :
        /\ sess[s].pc = "doc_delete"
        /\ IF DocDeleted(failAt)
           THEN /\ doc_collection' = DeleteWhere(doc_collection)
                /\ sess' = [sess EXCEPT ![s].pc = "chat_delete"]
           ELSE /\ sess' = Finish(s, "error")
                /\ UNCHANGED doc_collection
        /\ UNCHANGED <<chat_collection, asked, overlapped, single>>

\* lines 57-61
CChatDelete(s) ==
    \E failAt \in {"none", "chat_delete"} :
        /\ sess[s].pc = "chat_delete"
        /\ IF Cleared(failAt)
           THEN /\ chat_collection' = DeleteWhere(chat_collection)
                /\ sess' = [sess EXCEPT ![s].pc = "extract", ![s].history = <<>>]
           ELSE /\ sess' = Finish(s, "error")
                /\ UNCHANGED chat_collection
        /\ UNCHANGED <<doc_collection, asked, overlapped, single>>

\* lines 64-72
CExtract(s) ==
    \E failAt \in {"none", "extract"}, chunks \in ChunkLists(sess[s].name) :
        /\ sess[s].pc = "extract"
        /\ sess' = IF AddCalled(failAt, chunks)
                   THEN [sess EXCEPT ![s].pc = "add", ![s].chunks = chunks]
                   ELSE Finish(s, IngestMsg(failAt, chunks))
        /\ UNCHANGED <<doc_collection, chat_collection, asked, overlapped, single>>

\* lines 74-85
CAdd(s) ==
    \E failAt \in {"none", "add"}, partial \in 0..(MaxChunks - 1) :
        LET name == sess[s].name
            chunks == sess[s].chunks
        IN  /\ sess[s].pc = "add"
            /\ partial < Len(chunks)
            /\ doc_collection' =
                   AddEntries(doc_collection,
                              EntriesToAdd(name, chunks,
                                           IF failAt = "add" THEN partial ELSE Len(chunks)))
            /\ sess' = IF Succeeded(failAt, chunks)
                       THEN [Finish(s, "success") EXCEPT ![s].file_processed = TRUE,
                                                         ![s].file_name = name]
                       ELSE Finish(s, IngestMsg(failAt, chunks))
            /\ UNCHANGED <<chat_collection, asked, overlapped, single>>

NextConc ==
    \E s \in Sessions :
        \/ CBegin(s)
        \/ CDocDelete(s)
        \/ CChatDelete(s)
        \/ CExtract(s)
        \/ CAdd(s)

SpecConc == Init /\ [][NextConc]_vars

(***************************** properties ***********************************)
IsPrefix(a, b) == Len(a) <= Len(b) /\ SubSeq(b, 1, Len(a)) = a

CalledFn(cs, fn) == \E i \in DOMAIN cs : cs[i].fn = fn

SomeRaised(cs) == \E i \in DOMAIN cs : cs[i].raised

\* the last run was a "Process Document" run whose extract_text returned chunks
ExtractReturned(u, cs, chunks) ==
    /\ u.op = "ingest"
    /\ \E i \in DOMAIN cs :
        cs[i].fn = "extract_text" /\ ~cs[i].raised /\ cs[i].chunks = chunks

\* the last run was an accepted question whose synthesis failed
SynthesisFailed(u, cs) ==
    /\ u.op = "ask"
    /\ u.msg = "answer"
    /\ cs[1].fn = "get_conversational_answer"
    /\ (cs[1].raised \/ IsError(cs[1].answer))

\* the last run was an accepted question that got a usable answer, after which
\* the memory write raised
MemoryWriteFailed(u, cs) ==
    /\ u.op = "ask"
    /\ Len(cs) = 2
    /\ ~cs[1].raised /\ ~IsError(cs[1].answer)
    /\ cs[2].fn = "_store_in_long_term_memory" /\ cs[2].raised

\* C1: after an ingestion that ran to its success message, neither collection
\* holds an entry created for another document, whatever page metadata the
\* entries carry.
C1_NoResidualEntries ==
    (ui.op = "ingest" /\ ui.msg = "success") =>
        /\ \A e \in doc_collection : e.id[1] = ui.name
        /\ \A e \in chat_collection : e.doc = ui.name

\* C2: when the answer was produced and only the memory write failed, the
\* answer rendered and appended to the history is the produced answer with its
\* sources.
C2_MemoryFailureKeepsAnswer ==
    MemoryWriteFailed(ui, calls) =>
        /\ ui.answer = calls[1].answer
        /\ ui.sources = calls[1].sources
        /\ history[Len(history)] = [role |-> "model", parts |-> calls[1].answer]

\* C3: when answer synthesis fails (raises or returns an "Error..." answer) the
\* answer rendered and appended to the history starts with "Error", no sources
\* are shown, the memory writer is not called and the memory collection is
\* left as it was.
C3_SynthesisFailure ==
    /\ [](SynthesisFailed(ui, calls) =>
            /\ IsError(ui.answer)
            /\ ui.sources = <<>>
            /\ history[Len(history)] = [role |-> "model", parts |-> ui.answer]
            /\ ~CalledFn(calls, "_store_in_long_term_memory"))
    /\ [][SynthesisFailed(ui', calls') => chat_collection' = chat_collection]_vars

C3_Witness ==
    /\ SynthesisFailed(ui, calls)
    /\ ~calls[1].raised
    /\ chat_collection # {}

\* C4: an ingestion in which a delete, extract_text or add raised shows the
\* error message, never the success message, and leaves file_processed and
\* file_name as they were; the two are changed only by a run whose add
\* returned, which sets them to True and the uploaded name.
C4_AbortIsNotSuccess ==
    /\ []((ui.op = "ingest" /\ SomeRaised(calls)) => ui.msg = "error")
    /\ [][(ui'.op = "ingest" /\ SomeRaised(calls')) =>
            (file_processed' = file_processed /\ file_name' = file_name)]_vars
    /\ [][(file_processed' # file_processed \/ file_name' # file_name) =>
            /\ ui'.op = "ingest" /\ ui'.msg = "success"
            /\ calls'[Len(calls')].fn = "doc_collection.add"
            /\ ~SomeRaised(calls')
            /\ file_processed' = TRUE /\ file_name' = ui'.name]_vars

C4_Witness ==
    /\ ui.op = "ingest" /\ ui.msg = "error"
    /\ calls[Len(calls)].fn = "doc_collection.add" /\ calls[Len(calls)].raised
    /\ doc_collection # {}
    /\ ~file_processed

\* C5: when extract_text returns an empty sequence the handler shows the
\* "no text was extracted" message and not the error message, does not call
\* doc_collection.add and leaves file_processed and file_name as they were.
C5_EmptyExtraction ==
    /\ [](ExtractReturned(ui, calls, <<>>) =>
            /\ ui.msg = "no_text"
            /\ ~CalledFn(calls, "doc_collection.add"))
    /\ [][ExtractReturned(ui', calls', <<>>) =>
            (file_processed' = file_processed /\ file_name' = file_name)]_vars

C5_Witness == ExtractReturned(ui, calls, <<>>) /\ ~file_processed

\* C6: the ids of the document collection are pairwise distinct, no add is
\* given an id the collection already holds, and after a successful ingestion
\* the collection holds exactly one entry "<name>_chunk_<i>" per extracted
\* chunk, i = 0..len(chunks)-1, carrying that chunk's content and page.
C6_UniqueChunkIds ==
    /\ Cardinality(Ids(doc_collection)) = Cardinality(doc_collection)
    /\ ~ui.collide
    /\ \A chunks \in ChunkLists(ui.name) :
         (ExtractReturned(ui, calls, chunks) /\ ui.msg = "success") =>
            /\ Cardinality(doc_collection) = Len(chunks)
            /\ \A i \in 1..Len(chunks) :
                 \E e \in doc_collection :
                    /\ e.id = <<ui.name, "_chunk_", i - 1>>
                    /\ e.document = chunks[i].content
                    /\ e.metadata.page = chunks[i].page_number

C6_Witness ==
    /\ ui.op = "ingest" /\ ui.msg = "success"
    /\ file_processed /\ file_name = ui.name
    /\ Cardinality(doc_collection) = MaxChunks
    /\ asked > 0

\* C7 as stated: every earlier value of the history is a prefix of every
\* later one.
C7_AppendOnly == [][IsPrefix(history, history')]_vars

\* C7 amended: a question appends to the history (a rejected one leaves it
\* alone); a "Process Document" run empties it once both deletes have
\* returned and leaves it alone when one of them raised.
C7_AppendOnlyBetweenIngestions ==
    [][/\ ui'.op = "ask" =>
            \/ history' = history
            \/ IsPrefix(history, history') /\ Len(history') = Len(history) + 2
       /\ ui'.op = "ingest" =>
            history' = IF CalledFn(calls', "extract_text") THEN <<>> ELSE history]_vars

C7_Witness ==
    /\ ui.op = "ingest" /\ CalledFn(calls, "extract_text")
    /\ history = <<>>
    /\ asked > 0

\* C9: a question submitted while file_processed is False only shows the
\* warning: no backend call is made and the history, both collections and the
\* session flags stay as they were; hence answers and turns exist only in a
\* session whose file_processed is True.
C9_RejectedQuestion ==
    /\ [][(ui'.op = "ask" /\ ~file_processed) =>
            /\ ui'.msg = "warning"
            /\ calls' = <<>>
            /\ UNCHANGED <<history, doc_collection, chat_collection,
                           file_processed, file_name, asked>>]_vars
    /\ []((history # <<>> \/ ui.msg = "answer" \/ asked > 0) => file_processed)

C9_Witness ==
    /\ ui.op = "ask" /\ ui.msg = "warning"
    /\ doc_collection # {}
    /\ history = <<>> /\ calls = <<>>

\* C10: whenever file_processed is True the document collection is non-empty
\* and holds only chunks of the document named by file_name.
C10_ProcessedMeansLoaded ==
    file_processed =>
        /\ doc_collection # {}
        /\ \A e \in doc_collection : e.id[1] = file_name

(************************* properties of SpecConc ***************************)
\* chunks of two different documents are in the collection at once
Mixed(coll) == \E e1, e2 \in coll : e1.id[1] # e2.id[1]

\* C8: the document collection holds chunks of two documents at once only
\* after two "Process Document" runs overlapped; runs that do not overlap
\* keep one active document.
C8_MixOnlyByOverlap == Mixed(doc_collection) => overlapped

\* both sessions report success for different documents and the collection
\* holds chunks of both
C8_Witness ==
    /\ \A s \in Sessions :
         /\ ~Busy(s)
         /\ sess[s].msg = "success"
         /\ sess[s].file_processed
         /\ \E e \in doc_collection : e.id[1] = sess[s].file_name
    /\ sess["s1"].file_name # sess["s2"].file_name
    /\ Mixed(doc_collection)
====
